---- MODULE Spec2Model ----
(***************************************************************************)
(* A model of pyFiona.py: the coupling pass (FionaProject.decode,          *)
(* FionaProject.fiona_create_subject, fiona_generate_coupling) and the     *)
(* transfer pass (send_dicom_folder, send_dicom_filelist).                 *)
(*                                                                         *)
(* The transfer pass is a sequential procedure; its position is pc/fi/fj.  *)
(* Everything the procedure does to the outside world in the current run   *)
(* (associate, read, C-STORE, sentinel write, release) is appended to the  *)
(* history variable log, which the properties are stated over.             *)
(***************************************************************************)
EXTENDS Integers, Sequences, FiniteSets, TLC

\* ------------------------------------------------------------------ bounds
NFolders == 2
MaxFiles == 2
MaxRuns == 2
MaxEvents == 3
MaxCalls == 3
MaxStudies == 2
MaxApply == 2


\* -------------------------------------------------------- projects: state
VARIABLES
  events,     \* events[p]: FionaProject.events of project p (a list)
  subjects,   \* subjects[p]: FionaProject.subjects of project p (a list)
  startup,    \* subjects as fiona_get_projinfo fetched them (history)
  dres,       \* the latest call of decode: its arguments and its outcome
  clog        \* the calls of fiona_create_subject so far, in order

pvars == <<events, subjects, startup, dres, clog>>

\* -------------------------------------------------------- coupling: state
VARIABLES
  studies,    \* what scan_dicom_folder returned: (name, accession) items
  si,         \* index of the study the for loop of line 115 is at
  pi,         \* index of the project the for loop of line 116 is at
  kpc,        \* position in fiona_generate_coupling
  artifact,   \* the lines written to the coupling file so far
  klog        \* decode calls, registry requests and rows so far, in order

kvars == <<studies, si, pi, kpc, artifact, klog>>

\* ------------------------------------------------------- transfer: state
VARIABLES
  tree,       \* tree[f]: number of member files of folder f under dicom_path
  sentinel,   \* sentinel[f]: the file <folder>/complete exists
  assoc,      \* the association object of the current run
  pc,         \* position in send_dicom_folder
  fi,         \* index of the folder the for loop of line 141 is at
  filelist,   \* the list get_files_recursive returned for folder fi
  fj,         \* index of the file the for loop of line 156 is at
  run,        \* number of runs of send_dicom_folder started so far
  log         \* what the current run has done so far, in order

tvars == <<tree, sentinel, assoc, pc, fi, filelist, fj, run, log>>

\* ----------------------------------------------------------- scan: state
VARIABLES
  sdirs,      \* sdirs[d]: number of files of the d-th directory os.walk yields
  sd,         \* index of the directory the for loop of line 81 is at
  sf,         \* index of the file the for loop of line 82 is at
  spc,        \* position in scan_dicom_folder
  sstudies,   \* the dict studies, as its items in insertion order
  slog        \* the files read and the lines printed so far, in order

svars == <<sdirs, sd, sf, spc, sstudies, slog>>

\* ------------------------------------------------------ accession: state
VARIABLES
  afile,      \* a DICOM file on disk: its AccessionNumber and StudyInstanceUID
  dcm,        \* the dataset read from it, in memory
  applied,    \* how often generate_accession_number was applied to dcm
  scanned,    \* the accession scan_dicom_folder recorded for the file
  sent        \* the accession of the dataset send_dicom_filelist submitted

avars == <<afile, dcm, applied, scanned, sent>>

vars == <<pvars, kvars, tvars, svars, avars>>

Last(s) == s[Len(s)]

\* -------------------------------------------------- projects

\* Strings are sequences of characters.
Digits == {"0", "1", "2", "3", "4", "5", "6", "7", "8", "9"}

DigitValue(c) ==
  CASE c = "0" -> 0 [] c = "1" -> 1 [] c = "2" -> 2 [] c = "3" -> 3
    [] c = "4" -> 4 [] c = "5" -> 5 [] c = "6" -> 6 [] c = "7" -> 7
    [] c = "8" -> 8 [] c = "9" -> 9

\* int(s) of a string of decimal digits.
RECURSIVE int(_)
int(s) ==
  IF Len(s) = 0 THEN 0
  ELSE 10 * int(SubSeq(s, 1, Len(s) - 1)) + DigitValue(s[Len(s)])

\* The projects of gen_projects (lines 171-184), in configured order. A
\* pattern r'NDOSE_(?P<subj_id>L\d{3})_(?P<event_id>\d)' is given by its
\* literal head and its leading digit L; a template r'T{subj_id}' by its
\* literal head T.
ProjectDefs ==
  << [name |-> "N-DOSE_AD",
      literal |-> <<"N", "D", "O", "S", "E", "_">>,
      lead |-> "5",
      template |-> <<"N", "-", "D", "O", "S", "E", "_", "A", "D", "_">>],
     [name |-> "N-DOSE",
      literal |-> <<"N", "D", "O", "S", "E", "_">>,
      lead |-> "3",
      template |-> <<"P", "D", "_">>] >>

Projects == 1..Len(ProjectDefs)

\* Names of the events of a project, in the order of the registry's answer.
EventNames == <<"ev1", "ev2", "ev3", "ev4", "ev5">>

NoMatch == [matched |-> FALSE, subj_id |-> <<>>, event_id |-> <<>>]

\* self._re.match(text), line 39, with groupdict(), line 42: the pattern
\* must match at the start of text; what follows the match is ignored.
re_match(def, text) ==
  LET n == Len(def.literal) IN
    IF /\ Len(text) >= n + 6
       /\ SubSeq(text, 1, n) = def.literal
       /\ text[n + 1] = def.lead
       /\ \A k \in (n + 2)..(n + 4) : text[k] \in Digits
       /\ text[n + 5] = "_"
       /\ text[n + 6] \in Digits
    THEN [matched |-> TRUE,
          subj_id |-> SubSeq(text, n + 1, n + 4),
          event_id |-> SubSeq(text, n + 6, n + 6)]
    ELSE NoMatch

\* self._subj_temp.format(**data), line 46.
format(def, data) == def.template \o data.subj_id

\* The outcome of an expression that returns a (subj_id, event_id) tuple,
\* returns None, or raises.
DecodeNone == [kind |-> "None", subj_id |-> <<>>, event_id |-> ""]
DecodeRaise == [kind |-> "IndexError", subj_id |-> <<>>, event_id |-> ""]
DecodeTuple(s, e) == [kind |-> "tuple", subj_id |-> s, event_id |-> e]

\* The test of line 43: the event index is rejected.
EventIdInvalid(e, evs) == e > Len(evs)

\* FionaProject.decode, lines 38-48. A Python list index i in 0..N-1 counts
\* from the front, one in -N..-1 counts from the back, any other raises
\* IndexError (line 47).
decode(def, evs, text) ==
  LET result == re_match(def, text) IN
    IF ~result.matched THEN DecodeNone
    ELSE LET e == int(result.event_id)
             i == e - 1
             N == Len(evs)
         IN IF EventIdInvalid(e, evs) THEN DecodeNone
            ELSE IF 0 <= i /\ i < N
              THEN DecodeTuple(format(def, result), evs[i + 1])
            ELSE IF -N <= i /\ i < 0
              THEN DecodeTuple(format(def, result), evs[N + i + 1])
            ELSE DecodeRaise

\* Study labels decode is applied to: a head, four characters, a separator,
\* the event character, and possibly more.
LabelHeads == {<<"N", "D", "O", "S", "E", "_">>, <<"M", "D", "O", "S", "E", "_">>}
LabelSubjects ==
  {<<"5", "0", "0", "1">>, <<"3", "0", "0", "7">>, <<"7", "0", "0", "1">>,
   <<"5", "0", "x", "1">>}
LabelEvents == {"0", "1", "2", "3", "4", "9", "x"}
LabelTails == {<<>>, <<"7">>}
Labels ==
  {h \o s \o <<"_", e>> \o t :
     h \in LabelHeads, s \in LabelSubjects, e \in LabelEvents, t \in LabelTails}
    \cup {<<>>, <<"N", "D", "O", "S", "E", "_", "5", "0", "0", "1">>}

\* Subject ids fiona_create_subject is called with.
SubjectIds ==
  {ProjectDefs[1].template \o <<"5", "0", "0", "1">>,
   ProjectDefs[2].template \o <<"3", "0", "0", "7">>}

\* The answers of createNewName.php (data, line 56): a dict with a message
\* and possibly an error. raised: requests.get raised instead (timeout,
\* connection error).
ErrorValues == {0, 1, 2}
Response(has_error, v) ==
  [raised |-> FALSE, has_error |-> has_error, error |-> v, message |-> "m"]
Responses == {Response(FALSE, 0)} \cup {Response(TRUE, v) : v \in ErrorValues}
NetworkError == [raised |-> TRUE, has_error |-> FALSE, error |-> 0, message |-> ""]
NoReply == [raised |-> FALSE, has_error |-> FALSE, error |-> 0, message |-> ""]
Replies == Responses \cup {NetworkError}

\* Lines 57-58: the answer is an error answer.
IsErrorResponse(data) == data.has_error /\ data.error = 1

\* x in list, for a Python list.
InList(x, list) == \E k \in 1..Len(list) : list[k] = x

\* subj_id in self.subjects, line 51.
InSubjects(subj_id, list) == InList(subj_id, list)

\* Mutant of AfterCreate: the subject is not remembered.
AfterCreate_forget(list, subj_id) == list

\* self.subjects after a successful create, line 62.
AfterCreate(list, subj_id) == Append(list, subj_id)

\* Mutant of create_subject: the subject is remembered before the answer
\* is looked at.
create_subject_speculative(list, subj_id, reply) ==
  IF InSubjects(subj_id, list)
    THEN [ret |-> "True", requests |-> 0, subjects |-> list]
  ELSE IF reply.raised
    THEN [ret |-> "raise", requests |-> 1, subjects |-> list]
  ELSE IF IsErrorResponse(reply)
    THEN [ret |-> "False", requests |-> 1, subjects |-> Append(list, subj_id)]
  ELSE [ret |-> "True", requests |-> 1, subjects |-> Append(list, subj_id)]

\* Mutant of create_subject: a failed request is tried once more and then
\* taken for a success.
create_subject_retry(list, subj_id, reply) ==
  IF InSubjects(subj_id, list)
    THEN [ret |-> "True", requests |-> 0, subjects |-> list]
  ELSE IF reply.raised
    THEN [ret |-> "True", requests |-> 2, subjects |-> Append(list, subj_id)]
  ELSE IF IsErrorResponse(reply)
    THEN [ret |-> "False", requests |-> 1, subjects |-> list]
  ELSE [ret |-> "True", requests |-> 1, subjects |-> Append(list, subj_id)]

\* FionaProject.fiona_create_subject, lines 50-63, as the record of what a
\* call with the answer reply does: what it returns ("True", "False" or
\* "raise"), how many requests it issues, and the subjects list it leaves.
create_subject(list, subj_id, reply) ==
  IF InSubjects(subj_id, list)
    THEN [ret |-> "True", requests |-> 0, subjects |-> list]
  ELSE IF reply.raised
    THEN [ret |-> "raise", requests |-> 1, subjects |-> list]
  ELSE IF IsErrorResponse(reply)
    THEN [ret |-> "False", requests |-> 1, subjects |-> list]
  ELSE [ret |-> "True", requests |-> 1, subjects |-> AfterCreate(list, subj_id)]

\* FionaProject.__init__ with fiona_get_projinfo, lines 30-36 and 65-71:
\* the registry's events and participants become the project's lists.
EventLists == {SubSeq(EventNames, 1, n) : n \in 0..MaxEvents}
SubjectLists ==
  {<<>>} \cup {<<s>> : s \in SubjectIds}

ProjInit ==
  /\ events \in [Projects -> EventLists]
  /\ subjects \in [Projects -> SubjectLists]
  /\ startup = subjects

NoDecode == [proj |-> 0, text |-> <<>>, out |-> DecodeNone]

\* The project part at rest, for the specifications that do not use it.
ProjParked ==
  /\ events = [p \in Projects |-> <<>>]
  /\ subjects = [p \in Projects |-> <<>>]
  /\ startup = subjects
  /\ dres = NoDecode
  /\ clog = <<>>

\* A caller applies decode of project p to a label.
Decode(p, text) ==
  /\ dres' = [proj |-> p, text |-> text,
              out |-> decode(ProjectDefs[p], events[p], text)]
  /\ UNCHANGED <<events, subjects, startup, clog>>
  /\ UNCHANGED <<kvars, tvars, svars, avars>>

\* A caller calls fiona_create_subject of project p, and the registry
\* answers reply if it is asked.
CreateSubject(p, subj_id, reply) ==
  /\ Len(clog) < MaxCalls
  /\ LET r == create_subject(subjects[p], subj_id, reply) IN
       /\ subjects' = [subjects EXCEPT ![p] = r.subjects]
       /\ clog' = Append(clog,
            [proj |-> p, subj_id |-> subj_id,
             reply |-> IF r.requests = 0 THEN NoReply ELSE reply,
             ret |-> r.ret, requests |-> r.requests,
             added |-> r.subjects # subjects[p]])
  /\ UNCHANGED <<events, startup, dres>>
  /\ UNCHANGED <<kvars, tvars, svars, avars>>


\* -------------------------------------------------- accession

\* sha256(data).hexdigest()[-16:], line 102, of the study instance UIDs used.
Sha256Tail(uid) ==
  CASE uid = "1.2.840.1" ->
         <<"1","1","c","9","9","0","0","b","4","8","e","b","1","9","9","3">>
    [] uid = "1.2.840.2" ->
         <<"9","0","4","b","d","a","a","3","2","a","c","3","3","d","b","c">>
    [] uid = "STUDY.1.2.3" ->
         <<"c","7","5","e","2","0","c","e","e","a","1","4","e","7","e","6">>

StudyUIDs == {"1.2.840.1", "1.2.840.2", "STUDY.1.2.3"}

\* Accession numbers found in files; the empty one is the missing one.
FileAccessions == {<<>>, <<"A", "1">>, <<"A", "2">>, <<"0">>}

\* Mutant of generate_accession_number: the accession is always replaced.
generate_accession_number_always(d) == [d EXCEPT !.acc = Sha256Tail(d.uid)]

\* generate_accession_number, lines 98-102, as the dataset it leaves.
generate_accession_number(d) ==
  IF Len(d.acc) > 0 THEN d
  ELSE [d EXCEPT !.acc = Sha256Tail(d.uid)]

NotRead == [set |-> FALSE, acc |-> <<>>]
WasRead(acc) == [set |-> TRUE, acc |-> acc]

AccInit ==
  /\ afile \in [acc : FileAccessions, uid : StudyUIDs]
  /\ dcm = afile
  /\ applied = 0
  /\ scanned = NotRead
  /\ sent = NotRead

AccParked ==
  /\ afile = [acc |-> <<>>, uid |-> ""]
  /\ dcm = afile
  /\ applied = 0
  /\ scanned = NotRead
  /\ sent = NotRead

\* generate_accession_number(dcm) is applied to the dataset in memory.
Generate ==
  /\ applied < MaxApply
  /\ dcm' = generate_accession_number(dcm)
  /\ applied' = applied + 1
  /\ UNCHANGED <<afile, scanned, sent>>
  /\ UNCHANGED <<pvars, kvars, tvars, svars>>

\* scan_dicom_folder lines 85-88: the file is read, the accession generated
\* if missing, and str(dcm.AccessionNumber) recorded.
ScanRecords ==
  /\ ~scanned.set
  /\ scanned' = WasRead(generate_accession_number(afile).acc)
  /\ UNCHANGED <<afile, dcm, applied, sent>>
  /\ UNCHANGED <<pvars, kvars, tvars, svars>>

\* send_dicom_filelist lines 158-160: the file is read, the accession
\* generated if missing, and the dataset submitted.
SendSubmits ==
  /\ ~sent.set
  /\ sent' = WasRead(generate_accession_number(afile).acc)
  /\ UNCHANGED <<afile, dcm, applied, scanned>>
  /\ UNCHANGED <<pvars, kvars, tvars, svars>>

\* -------------------------------------------------- scan

Dirs == 1..NFolders

\* What reading a file gives: an exception (not a DICOM file, or a tag is
\* missing), or a patient name, an accession and a study instance UID.
Unreadable == [readable |-> FALSE, name |-> "", acc |-> <<>>, uid |-> ""]
ScanFile(name, acc, uid) ==
  [readable |-> TRUE, name |-> name, acc |-> acc, uid |-> uid]
ScanFiles ==
  {Unreadable,
   ScanFile("P1", <<"A", "1">>, "1.2.840.1"),
   ScanFile("P1", <<"A", "2">>, "1.2.840.2"),
   ScanFile("P1", <<>>, "1.2.840.1"),
   ScanFile("P2", <<"A", "1">>, "1.2.840.1")}

SEv(op, d, f, data) == [op |-> op, dir |-> d, file |-> f, data |-> data]

\* patient_name in studies, line 89.
InStudies(name, items) == \E k \in 1..Len(items) : items[k].name = name

\* Mutant of dict_insert_new: a later occurrence replaces the accession.
dict_insert_overwrite(items, name, accession) ==
  IF InStudies(name, items)
    THEN [k \in 1..Len(items) |->
            IF items[k].name = name
              THEN [name |-> name, accession |-> accession] ELSE items[k]]
    ELSE Append(items, [name |-> name, accession |-> accession])

\* Lines 89-90: the name gets its accession unless it has one.
dict_insert_new(items, name, accession) ==
  IF InStudies(name, items) THEN items
  ELSE Append(items, [name |-> name, accession |-> accession])

\* Mutant of AfterReadable: the break is missing.
AfterReadable_nobreak(d, f) == [sd |-> d, sf |-> f + 1]

\* Where the loops go on after a file was read: break, line 92.
AfterReadable(d, f) == [sd |-> d + 1, sf |-> 1]

ScanInit ==
  /\ sdirs \in [Dirs -> 0..MaxFiles]
  /\ sd = 1
  /\ sf = 1
  /\ spc = "scan"
  /\ sstudies = <<>>
  /\ slog = <<>>

ScanParked ==
  /\ sdirs = [d \in Dirs |-> 0]
  /\ sd = 0
  /\ sf = 0
  /\ spc = "idle"
  /\ sstudies = <<>>
  /\ slog = <<>>

\* scan_dicom_folder lines 82-94: the body of the inner loop for the file
\* at sd, sf, whose reading gives content.
ReadFile(content) ==
  /\ spc = "scan"
  /\ sd <= NFolders
  /\ sf <= sdirs[sd]
  /\ LET read == SEv("read", sd, sf, content) IN
       IF ~content.readable
         THEN /\ slog' = slog \o <<read, SEv("error", sd, sf, content)>>
              /\ sf' = sf + 1
              /\ UNCHANGED <<sd, sstudies>>
         ELSE LET accession == generate_accession_number(content).acc IN
              /\ sstudies' = dict_insert_new(sstudies, content.name, accession)
              /\ slog' = IF InStudies(content.name, sstudies)
                           THEN Append(slog, read)
                           ELSE slog \o <<read, SEv("found", sd, sf, content)>>
              /\ sd' = AfterReadable(sd, sf).sd
              /\ sf' = AfterReadable(sd, sf).sf
  /\ UNCHANGED <<sdirs, spc>>
  /\ UNCHANGED <<pvars, kvars, tvars, avars>>

\* scan_dicom_folder line 82: no file is left in the directory.
DirDone ==
  /\ spc = "scan"
  /\ sd <= NFolders
  /\ sf > sdirs[sd]
  /\ sd' = sd + 1
  /\ sf' = 1
  /\ UNCHANGED <<sdirs, spc, sstudies, slog>>
  /\ UNCHANGED <<pvars, kvars, tvars, avars>>

\* scan_dicom_folder lines 95-96: no directory is left.
ScanDone ==
  /\ spc = "scan"
  /\ sd > NFolders
  /\ slog' = Append(slog, SEv("summary", 0, 0, Unreadable))
  /\ spc' = "done"
  /\ UNCHANGED <<sdirs, sd, sf, sstudies>>
  /\ UNCHANGED <<pvars, kvars, tvars, avars>>


\* -------------------------------------------------- coupling

\* The labels of the scanned studies, and the accession of the k-th study.
StudyLabels ==
  {<<"N", "D", "O", "S", "E", "_", "5", "0", "0", "1", "_", "1">>,
   <<"N", "D", "O", "S", "E", "_", "3", "0", "0", "7", "_", "2">>,
   <<"N", "D", "O", "S", "E", "_", "5", "0", "0", "1", "_", "0">>,
   <<"B", "o", "b">>}
Accessions == <<"A1", "A2", "A3", "A4">>

\* The items of a dict: the names are distinct.
StudyLists ==
  UNION {{[k \in 1..n |-> [name |-> names[k], accession |-> Accessions[k]]] :
            names \in {x \in [1..n -> StudyLabels] :
                         \A a \in 1..n : \A b \in 1..n : a # b => x[a] # x[b]}} :
         n \in 0..MaxStudies}

\* The header line, line 114, and a data line, line 123.
HeaderRow ==
  [kind |-> "header", accession |-> "AccessionNumber", project |-> "ProjectName",
   subj_id |-> <<"s", "u", "b", "j", "e", "c", "t", "i", "d">>,
   event_id |-> "eventname"]
DataRow(accession, name, subj_id, event_id) ==
  [kind |-> "row", accession |-> accession, project |-> name,
   subj_id |-> subj_id, event_id |-> event_id]

KEv(op, s, p) == [op |-> op, study |-> s, proj |-> p]

\* Mutant of AfterMatch: the break is missing.
AfterMatch_nobreak(s, p) == [si |-> s, pi |-> p + 1]

\* Where the loops go on after a row was written: break, line 125.
AfterMatch(s, p) == [si |-> s + 1, pi |-> 1]

\* Where the loops go on after decode returned None: continue, line 119.
AfterNoMatch(s, p) == [si |-> s, pi |-> p + 1]

\* fiona_generate_coupling lines 113-115: the file is open, the header is
\* written and the scan has returned.
CoupInit ==
  /\ studies \in StudyLists
  /\ si = 1
  /\ pi = 1
  /\ kpc = "run"
  /\ artifact = <<HeaderRow>>
  /\ klog = <<>>

\* The coupling part at rest, for the specifications that do not use it.
CoupParked ==
  /\ studies = <<>>
  /\ si = 0
  /\ pi = 0
  /\ kpc = "idle"
  /\ artifact = <<>>
  /\ klog = <<>>

\* fiona_generate_coupling lines 116-125: the body of the inner loop for
\* study si and project pi. The registry answers reply if it is asked.
\* An exception (IndexError of decode, a failed request) ends the pass.
TryProject(reply) ==
  /\ kpc = "run"
  /\ si <= Len(studies)
  /\ pi <= Len(ProjectDefs)
  /\ LET match == decode(ProjectDefs[pi], events[pi], studies[si].name)
         tried == Append(klog, KEv("decode", si, pi))
     IN
       IF match.kind = "IndexError"
         THEN /\ kpc' = "crashed"
              /\ klog' = tried
              /\ UNCHANGED <<si, pi, artifact, subjects, clog>>
       ELSE IF match.kind = "None"
         THEN /\ si' = AfterNoMatch(si, pi).si
              /\ pi' = AfterNoMatch(si, pi).pi
              /\ klog' = tried
              /\ UNCHANGED <<kpc, artifact, subjects, clog>>
       ELSE LET asked == ~InSubjects(match.subj_id, subjects[pi])
                r == create_subject(subjects[pi], match.subj_id, reply)
                row == DataRow(studies[si].accession, ProjectDefs[pi].name,
                               match.subj_id, match.event_id)
            IN
              /\ subjects' = [subjects EXCEPT ![pi] = IF asked THEN r.subjects ELSE @]
              /\ clog' = IF asked
                           THEN Append(clog,
                                  [proj |-> pi, subj_id |-> match.subj_id,
                                   reply |-> reply, ret |-> r.ret,
                                   requests |-> r.requests,
                                   added |-> r.subjects # subjects[pi]])
                           ELSE clog
              /\ IF asked /\ r.ret = "raise"
                   THEN /\ kpc' = "crashed"
                        /\ klog' = Append(tried, KEv("request", si, pi))
                        /\ UNCHANGED <<si, pi, artifact>>
                   ELSE /\ artifact' = Append(artifact, row)
                        /\ klog' = (IF asked /\ r.requests > 0
                                      THEN Append(tried, KEv("request", si, pi))
                                      ELSE tried) \o <<KEv("row", si, pi)>>
                        /\ si' = AfterMatch(si, pi).si
                        /\ pi' = AfterMatch(si, pi).pi
                        /\ UNCHANGED kpc
  /\ UNCHANGED <<studies, events, startup, dres>>
  /\ UNCHANGED <<tvars, svars, avars>>

\* fiona_generate_coupling line 116: no project is left for the study.
NoProjectLeft ==
  /\ kpc = "run"
  /\ si <= Len(studies)
  /\ pi > Len(ProjectDefs)
  /\ si' = si + 1
  /\ pi' = 1
  /\ UNCHANGED <<studies, kpc, artifact, klog, pvars>>
  /\ UNCHANGED <<tvars, svars, avars>>

\* fiona_generate_coupling line 115: no study is left; the file is closed.
CoupleDone ==
  /\ kpc = "run"
  /\ si > Len(studies)
  /\ kpc' = "done"
  /\ UNCHANGED <<studies, si, pi, artifact, klog, pvars>>
  /\ UNCHANGED <<tvars, svars, avars>>

\* -------------------------------------------------- transfer

Folders == 1..NFolders

\* Names of the member files of a folder, in the order os.walk lists them.
FileNames == <<"a.dcm", "b.dcm", "c.dcm", "d.dcm", "e.dcm">>

\* The name of the sentinel file (line 143).
CompleteName == "complete"

\* C-STORE status codes a peer can answer with: 0x0000 (success) and
\* 0xA700 (failure: out of resources).
StatusSuccess == 0
StatusFailure == 42752
StatusCodes == {StatusSuccess, StatusFailure}

\* A pydicom Dataset, as the set of its <<keyword, value>> elements.
\* send_c_store returns a Dataset holding a Status element, or an empty
\* Dataset when the peer timed out, aborted or sent an invalid response.
EmptyDataset == {}
StatusDataset(code) == {<<"Status", code>>}
StoreReplies == {StatusDataset(c) : c \in StatusCodes} \cup {EmptyDataset}

\* Python truth value of a Dataset (it defines __len__): true iff non-empty.
Truthy(ds) == ds # {}

\* Attribute access ds.<kw> succeeds iff the element is present; otherwise
\* AttributeError is raised.
HasAttr(ds, kw) == \E e \in ds : e[1] = kw

\* One entry of the run history.
Ev(op, folder, file, status, ok) ==
  [op |-> op, folder |-> folder, file |-> file, status |-> status, ok |-> ok]

\* Mutant of isfile_complete: the sentinel is never seen.
isfile_complete_never(f) == FALSE

\* os.path.isfile(complete_path), line 144.
isfile_complete(f) == sentinel[f]

\* get_files_recursive(folder_path), lines 73-77: every file below the
\* folder, the sentinel included when it exists.
get_files_recursive(f) ==
  SubSeq(FileNames, 1, tree[f])
    \o (IF sentinel[f] THEN <<CompleteName>> ELSE <<>>)

\* Mutant of is_established: the refusal is not noticed.
is_established_always(a) == TRUE

\* assoc.is_established, line 138.
is_established(a) == a = "Established"

\* Mutant of send_c_store_permitted: a store goes out over any session.
send_c_store_permitted_always(a) == TRUE

\* assoc.send_c_store, line 160: the request is submitted over an
\* established association only; on any other the call raises RuntimeError.
send_c_store_permitted(a) == is_established(a)

\* Mutant of release: the session is closed whatever its state.
release_any(a) == "Closed"

\* assoc.release(), line 152, as the state it leaves the session in: an
\* established association is released, any other is left as it is.
release(a) == IF is_established(a) THEN "Closed" ELSE a

TInit ==
  /\ tree = [f \in Folders |-> 0]
  /\ sentinel = [f \in Folders |-> FALSE]
  /\ assoc = "Unconnected"
  /\ pc = "idle"
  /\ fi = 0
  /\ filelist = <<>>
  /\ fj = 0
  /\ run = 0
  /\ log = <<>>

Resting == pc \in {"idle", "done", "crashed"}

\* Environment, between runs: a file is put into a study folder.
FileArrives(f) ==
  /\ Resting
  /\ tree[f] < MaxFiles
  /\ tree' = [tree EXCEPT ![f] = @ + 1]
  /\ UNCHANGED <<sentinel, assoc, pc, fi, filelist, fj, run, log>>
  /\ UNCHANGED <<pvars, kvars, svars, avars>>

\* send_dicom_folder lines 127-140: a run starts and associates with the
\* peer, which accepts or not.
Associate(accepted) ==
  /\ Resting
  /\ run < MaxRuns
  /\ run' = run + 1
  /\ assoc' = IF accepted THEN "Established" ELSE "Failed"
  /\ log' = <<Ev("associate", 0, "", EmptyDataset, accepted)>>
  /\ pc' = IF is_established(assoc') THEN "loop" ELSE "release"
  /\ fi' = 1
  /\ filelist' = <<>>
  /\ fj' = 0
  /\ UNCHANGED <<tree, sentinel>>
  /\ UNCHANGED <<pvars, kvars, svars, avars>>

\* Environment, during a run: the peer aborts the association.
PeerAborts ==
  /\ pc \in {"loop", "send"}
  /\ is_established(assoc)
  /\ assoc' = "Aborted"
  /\ UNCHANGED <<tree, sentinel, pc, fi, filelist, fj, run, log>>
  /\ UNCHANGED <<pvars, kvars, svars, avars>>

\* send_dicom_folder lines 141-148: the next folder of os.listdir is
\* skipped when it has its sentinel, and is enumerated otherwise.
NextFolder ==
  /\ pc = "loop"
  /\ fi <= NFolders
  /\ IF isfile_complete(fi)
       THEN /\ fi' = fi + 1
            /\ UNCHANGED <<pc, filelist, fj>>
       ELSE /\ filelist' = get_files_recursive(fi)
            /\ fj' = 1
            /\ pc' = "send"
            /\ UNCHANGED fi
  /\ UNCHANGED <<tree, sentinel, assoc, run, log>>
  /\ UNCHANGED <<pvars, kvars, svars, avars>>

\* send_dicom_folder line 141, the loop is exhausted.
LoopDone ==
  /\ pc = "loop"
  /\ fi > NFolders
  /\ pc' = "release"
  /\ UNCHANGED <<tree, sentinel, assoc, fi, filelist, fj, run, log>>
  /\ UNCHANGED <<pvars, kvars, svars, avars>>

\* send_dicom_filelist line 158: dicom.dcmread(filepath) raises; nothing
\* catches it, so the exception leaves send_dicom_folder before line 152.
ReadFails ==
  /\ pc = "send"
  /\ fj <= Len(filelist)
  /\ log' = Append(log, Ev("read", fi, filelist[fj], EmptyDataset, FALSE))
  /\ pc' = "crashed"
  /\ UNCHANGED <<tree, sentinel, assoc, fi, filelist, fj, run>>
  /\ UNCHANGED <<pvars, kvars, svars, avars>>

\* What lines 162-167 do with the status send_c_store returned:
\* "continue" with the next file, "return" False, or "raise".
AfterStore(status) ==
  IF ~Truthy(status)
    THEN IF HasAttr(status, "Status") THEN "return" ELSE "raise"
    ELSE "continue"

\* send_dicom_filelist lines 156-167: one file is read and submitted.
\* The sentinel file is not a DICOM file and can only fail to read.
SendFile(status) ==
  /\ pc = "send"
  /\ fj <= Len(filelist)
  /\ filelist[fj] # CompleteName
  /\ IF send_c_store_permitted(assoc)
       THEN /\ log' = Append(log, Ev("store", fi, filelist[fj], status, TRUE))
            /\ assoc' = IF status = EmptyDataset THEN "Aborted" ELSE assoc
            /\ LET next == AfterStore(status) IN
                 /\ pc' = CASE next = "continue" -> "send"
                            [] next = "return" -> "loop"
                            [] OTHER -> "crashed"
                 /\ fj' = IF next = "continue" THEN fj + 1 ELSE fj
                 /\ fi' = IF next = "return" THEN fi + 1 ELSE fi
       ELSE /\ log' = Append(log, Ev("refused", fi, filelist[fj],
                                     EmptyDataset, FALSE))
            /\ pc' = "crashed"
            /\ UNCHANGED <<assoc, fi, fj>>
  /\ UNCHANGED <<tree, sentinel, filelist, run>>
  /\ UNCHANGED <<pvars, kvars, svars, avars>>

\* send_dicom_filelist lines 168-169 and send_dicom_folder lines 149-151:
\* the file loop is exhausted, True is returned and the sentinel written.
WriteSentinel ==
  /\ pc = "send"
  /\ fj > Len(filelist)
  /\ sentinel' = [sentinel EXCEPT ![fi] = TRUE]
  /\ log' = Append(log, Ev("sentinel", fi, CompleteName, EmptyDataset, TRUE))
  /\ fi' = fi + 1
  /\ pc' = "loop"
  /\ UNCHANGED <<tree, assoc, filelist, fj, run>>
  /\ UNCHANGED <<pvars, kvars, svars, avars>>

\* send_dicom_folder line 152: assoc.release(), which releases an
\* established association and does nothing to any other.
Release ==
  /\ pc = "release"
  /\ log' = Append(log, Ev("release", 0, "", EmptyDataset,
                         release(assoc) # assoc))
  /\ assoc' = release(assoc)
  /\ pc' = "done"
  /\ UNCHANGED <<tree, sentinel, fi, filelist, fj, run>>
  /\ UNCHANGED <<pvars, kvars, svars, avars>>

TNext ==
  \/ \E f \in Folders : FileArrives(f)
  \/ \E accepted \in BOOLEAN : Associate(accepted)
  \/ PeerAborts
  \/ NextFolder
  \/ LoopDone
  \/ ReadFails
  \/ \E status \in StoreReplies : SendFile(status)
  \/ WriteSentinel
  \/ Release

\* The transfer pass of __main__, line 190, run any number of times.
TransferInit ==
  /\ ProjParked
  /\ CoupParked
  /\ TInit
  /\ ScanParked
  /\ AccParked

SpecTransfer == TransferInit /\ [][TNext]_vars

\* decode applied to any label of any project.
DecodeInit ==
  /\ events \in [Projects -> EventLists]
  /\ subjects = [p \in Projects |-> <<>>]
  /\ startup = subjects
  /\ dres = NoDecode
  /\ clog = <<>>
  /\ CoupParked
  /\ TInit
  /\ ScanParked
  /\ AccParked

DecodeNext == \E p \in Projects : \E text \in Labels : Decode(p, text)

SpecDecode == DecodeInit /\ [][DecodeNext]_vars

\* fiona_create_subject called with any subject of any project.
RegistryInit ==
  /\ events = [p \in Projects |-> <<>>]
  /\ subjects \in [Projects -> SubjectLists]
  /\ startup = subjects
  /\ dres = NoDecode
  /\ clog = <<>>
  /\ CoupParked
  /\ TInit
  /\ ScanParked
  /\ AccParked

RegistryNext ==
  \E p \in Projects : \E subj_id \in SubjectIds : \E reply \in Replies :
    CreateSubject(p, subj_id, reply)

SpecRegistry == RegistryInit /\ [][RegistryNext]_vars

\* The coupling pass of __main__, lines 187-188.
CouplingInit ==
  /\ ProjInit
  /\ dres = NoDecode
  /\ clog = <<>>
  /\ CoupInit
  /\ TInit
  /\ ScanParked
  /\ AccParked

CouplingNext ==
  \/ \E reply \in Replies : TryProject(reply)
  \/ NoProjectLeft
  \/ CoupleDone

SpecCoupling == CouplingInit /\ [][CouplingNext]_vars

\* scan_dicom_folder over any tree, every file reading as anything.
ScanSpecInit ==
  /\ ProjParked
  /\ CoupParked
  /\ TInit
  /\ AccParked
  /\ ScanInit

ScanNext ==
  \/ \E content \in ScanFiles : ReadFile(content)
  \/ DirDone
  \/ ScanDone

SpecScan == ScanSpecInit /\ [][ScanNext]_vars

\* generate_accession_number on any file, in the scan and the transfer pass.
AccSpecInit ==
  /\ ProjParked
  /\ CoupParked
  /\ TInit
  /\ ScanParked
  /\ AccInit

AccNext ==
  \/ Generate
  \/ ScanRecords
  \/ SendSubmits

SpecAccession == AccSpecInit /\ [][AccNext]_vars

\* -------------------------------------------------------- scan: properties

\* The reads that gave a patient identity and an accession.
GoodReads == {j \in 1..Len(slog) : slog[j].op = "read" /\ slog[j].data.readable}

\* The accession a read gave, generated if the file had none.
AccessionOf(j) == generate_accession_number(slog[j].data).acc

\* The first read that gave the identity of read j.
FirstOf(j) ==
  CHOOSE i \in GoodReads :
    /\ slog[i].data.name = slog[j].data.name
    /\ \A h \in GoodReads : slog[h].data.name = slog[j].data.name => i <= h

\* A line was printed about the file of read j.
PrintedAbout(j, ops) ==
  \E k \in 1..Len(slog) :
    /\ slog[k].op \in ops
    /\ slog[k].dir = slog[j].dir
    /\ slog[k].file = slog[j].file

\* The result maps every identity read, once, to the accession of its
\* first occurrence in scan order.
FirstOccurrenceWins ==
  /\ \A j \in GoodReads :
       \E k \in 1..Len(sstudies) :
         /\ sstudies[k].name = slog[j].data.name
         /\ sstudies[k].accession = AccessionOf(FirstOf(j))
  /\ \A k \in 1..Len(sstudies) :
       /\ \E j \in GoodReads : slog[j].data.name = sstudies[k].name
       /\ \A h \in 1..Len(sstudies) :
            sstudies[h].name = sstudies[k].name => h = k

\* C12 (as claimed): first occurrence wins, and a warning is printed when an
\* identity reappears in a later directory with a different accession.
C12_FirstWinsAndWarns ==
  /\ FirstOccurrenceWins
  /\ \A j \in GoodReads :
       AccessionOf(j) # AccessionOf(FirstOf(j)) => PrintedAbout(j, {"warning"})

\* C12 (amended): first occurrence wins, and nothing at all is printed when
\* an identity reappears, whatever its accession.
C12_FirstWinsSilently ==
  /\ FirstOccurrenceWins
  /\ \A j \in GoodReads :
       j # FirstOf(j) => ~PrintedAbout(j, {"found", "warning", "error"})

\* C12 witness: the scan has ended after an identity reappeared in a later
\* directory with a different accession.
C12_Witness ==
  /\ spc = "done"
  /\ \E j \in GoodReads :
       /\ AccessionOf(j) # AccessionOf(FirstOf(j))
       /\ slog[j].dir > slog[FirstOf(j)].dir

\* The reads of the files of directory d.
ReadsOf(d) == {j \in 1..Len(slog) : slog[j].op = "read" /\ slog[j].dir = d}

\* C15: first valid representative per directory. The files of a directory
\* are read in order, each once; no file of it is read after one that gave
\* an identity and an accession; a failed read is followed by the next file,
\* so that at the end every directory has given a representative or has had
\* all its files read; and every entry of the result comes from a file
\* that was read successfully.
C15_FirstRepresentative ==
  /\ \A d \in Dirs : \A j \in ReadsOf(d) :
       /\ slog[j].file = 1 + Cardinality({i \in ReadsOf(d) : i < j})
       /\ slog[j].file <= sdirs[d]
       /\ \A i \in ReadsOf(d) : i < j => ~slog[i].data.readable
  /\ spc = "done" =>
       \A d \in Dirs :
         \/ \E j \in ReadsOf(d) : slog[j].data.readable
         \/ Cardinality(ReadsOf(d)) = sdirs[d]
  /\ \A k \in 1..Len(sstudies) :
       \E j \in GoodReads : slog[j].data.name = sstudies[k].name
  /\ Len(sstudies) <= Cardinality({slog[j].dir : j \in GoodReads})

\* C15 witness: the scan has ended; the first file of a directory of two
\* was its representative and the second was not read, and in another
\* directory every file failed to read, leaving a single entry.
C15_Witness ==
  /\ spc = "done"
  /\ \E d \in Dirs :
       /\ sdirs[d] = 2
       /\ Cardinality(ReadsOf(d)) = 1
       /\ \E j \in ReadsOf(d) : slog[j].data.readable
  /\ \E d \in Dirs :
       /\ sdirs[d] > 0
       /\ Cardinality(ReadsOf(d)) = sdirs[d]
       /\ \A j \in ReadsOf(d) : ~slog[j].data.readable
  /\ Len(sstudies) = 1

\* --------------------------------------------------- accession: properties

\* C13: accession synthesis. Applied to a dataset once or more often,
\* generate_accession_number leaves what one application to the file's
\* dataset leaves: a non-empty accession unchanged, an empty one replaced
\* by the 16 characters that the study instance UID alone determines. The
\* accession the scan pass records for a file is the one the transfer pass
\* submits for it.
C13_AccessionSynthesis ==
  /\ applied >= 1 => dcm = generate_accession_number(afile)
  /\ Len(afile.acc) > 0 => dcm.acc = afile.acc
  /\ (Len(afile.acc) = 0 /\ applied >= 1) =>
       /\ dcm.acc = Sha256Tail(afile.uid)
       /\ Len(dcm.acc) = 16
  /\ dcm.uid = afile.uid
  /\ scanned.set => (Len(afile.acc) > 0 => scanned.acc = afile.acc)
  /\ (scanned.set /\ sent.set) => scanned.acc = sent.acc

\* C13 witness: the function was applied twice to the dataset of a file
\* without accession, and both passes have read the file.
C13_Witness ==
  /\ Len(afile.acc) = 0
  /\ applied = 2
  /\ scanned.set
  /\ sent.set

\* ---------------------------------------------------- projects: properties

\* The answer indicates success: no error field, or error 0.
ResponseOK(reply) == ~reply.raised /\ (~reply.has_error \/ reply.error = 0)

SameSubject(a, b) == a.proj = b.proj /\ a.subj_id = b.subj_id

\* C7: ensure_subject idempotence. A call of fiona_create_subject that
\* follows a call with the same project and subject that returned True, or
\* whose subject was in the startup list, returns True and issues no request.
C7_CreateIdempotent ==
  \A j \in 1..Len(clog) :
    (\/ InList(clog[j].subj_id, startup[clog[j].proj])
     \/ \E i \in 1..(j - 1) : SameSubject(clog[i], clog[j]) /\ clog[i].ret = "True")
      => clog[j].ret = "True" /\ clog[j].requests = 0

\* C7 witness: a call created a subject with one request, and a later call
\* was made with the same project and subject.
C7_Witness ==
  \E j \in 1..Len(clog) : \E i \in 1..(j - 1) :
    /\ SameSubject(clog[i], clog[j])
    /\ clog[i].ret = "True"
    /\ clog[i].requests = 1

\* C8 (as claimed): no speculative cache insertion. A call that got an
\* answer adds the subject and returns True exactly when the answer
\* indicates success, and returns False and adds nothing otherwise; so every
\* subject in a project's list was fetched at startup or confirmed created.
C8_NoSpeculativeInsertion ==
  /\ \A j \in 1..Len(clog) :
       (clog[j].requests = 1 /\ ~clog[j].reply.raised) =>
         IF ResponseOK(clog[j].reply)
           THEN clog[j].ret = "True" /\ clog[j].added
           ELSE clog[j].ret = "False" /\ ~clog[j].added
  /\ \A p \in Projects : \A k \in 1..Len(subjects[p]) :
       \/ InList(subjects[p][k], startup[p])
       \/ \E j \in 1..Len(clog) :
            /\ clog[j].proj = p
            /\ clog[j].subj_id = subjects[p][k]
            /\ clog[j].requests = 1
            /\ ResponseOK(clog[j].reply)

\* The result the contract gives decode: None when the label does not
\* match or the event index is below 1 or above the number of events,
\* otherwise the formatted subject and the event at that 1-based position.
DecodeReference(def, evs, text) ==
  LET result == re_match(def, text) IN
    IF ~result.matched THEN DecodeNone
    ELSE LET e == int(result.event_id) IN
      IF e < 1 \/ e > Len(evs) THEN DecodeNone
      ELSE DecodeTuple(def.template \o result.subj_id, evs[e])

\* C9 (as claimed): every call of decode returns its reference result, and
\* so never raises.
C9_DecodeReference ==
  dres.proj # 0 =>
    dres.out = DecodeReference(ProjectDefs[dres.proj], events[dres.proj], dres.text)

\* ---------------------------------------------------- coupling: properties

\* C10: first-match-wins. A row written for a study names a project whose
\* decode of the study's name is a match while that of every project before
\* it is None; the study has no other row, no project after the winning
\* one was tried for it (no decode, no request), and the artifact holds one
\* line per row written, after the header.
C10_FirstMatchWins ==
  /\ \A i \in 1..Len(klog) :
       klog[i].op = "row" =>
         LET s == klog[i].study
             p == klog[i].proj
         IN
           /\ decode(ProjectDefs[p], events[p], studies[s].name).kind = "tuple"
           /\ \A q \in 1..(p - 1) :
                decode(ProjectDefs[q], events[q], studies[s].name).kind = "None"
           /\ \A j \in 1..Len(klog) :
                klog[j].study = s =>
                  /\ klog[j].proj <= p
                  /\ (klog[j].op = "row" => j = i)
  /\ Len(artifact) = 1 + Cardinality({i \in 1..Len(klog) : klog[i].op = "row"})

\* C10 witness: the pass has ended, and a study that the first of two
\* projects matched has its row.
C10_Witness ==
  /\ kpc = "done"
  /\ Len(ProjectDefs) > 1
  /\ \E i \in 1..Len(klog) : klog[i].op = "row" /\ klog[i].proj = 1

Min(S) == CHOOSE x \in S : \A y \in S : x <= y

\* The projects that match the name of study s, by the contract of decode.
Matching(s) ==
  {p \in Projects :
     DecodeReference(ProjectDefs[p], events[p], studies[s].name).kind = "tuple"}

\* The data row of study s: that of the first project matching its name.
RowOf(s) ==
  LET p == Min(Matching(s))
      match == DecodeReference(ProjectDefs[p], events[p], studies[s].name)
  IN [kind |-> "row", accession |-> studies[s].accession,
      project |-> ProjectDefs[p].name,
      subj_id |-> match.subj_id, event_id |-> match.event_id]

\* The data rows of the first n studies, in scan order.
RECURSIVE RowsUpTo(_)
RowsUpTo(n) ==
  IF n = 0 THEN <<>>
  ELSE RowsUpTo(n - 1) \o (IF Matching(n) = {} THEN <<>> ELSE <<RowOf(n)>>)

\* C11 (as claimed): coupling artifact content. When the coupling pass has
\* run to the end, the artifact is the header row followed, in scan order,
\* by one data row (accession, project, subject, event) for each study that
\* matches a project, and by nothing for a study that matches none.
C11_ArtifactContent ==
  kpc = "done" =>
    /\ artifact = <<HeaderRow>> \o RowsUpTo(Len(studies))
    /\ artifact[1].accession = "AccessionNumber"
    /\ artifact[1].project = "ProjectName"
    /\ artifact[1].event_id = "eventname"

\* The same with "matches" read as "decode, as implemented, returns a
\* tuple": the rows the loops of lines 115-125 write.
MatchingOfDecode(s) ==
  {p \in Projects :
     decode(ProjectDefs[p], events[p], studies[s].name).kind = "tuple"}

RowOfDecode(s) ==
  LET p == Min(MatchingOfDecode(s))
      match == decode(ProjectDefs[p], events[p], studies[s].name)
  IN [kind |-> "row", accession |-> studies[s].accession,
      project |-> ProjectDefs[p].name,
      subj_id |-> match.subj_id, event_id |-> match.event_id]

RECURSIVE RowsOfDecodeUpTo(_)
RowsOfDecodeUpTo(n) ==
  IF n = 0 THEN <<>>
  ELSE RowsOfDecodeUpTo(n - 1)
         \o (IF MatchingOfDecode(n) = {} THEN <<>> ELSE <<RowOfDecode(n)>>)

\* Holds: the artifact differs from the claimed one only through decode.
ArtifactOfDecode ==
  kpc = "done" => artifact = <<HeaderRow>> \o RowsOfDecodeUpTo(Len(studies))

\* C14: a registry error does not suppress the row. The step of the
\* coupling pass in which fiona_create_subject returns False on an error
\* answer writes the study's row for that subject and project, leaves
\* every subjects list as it was, so without that subject, and goes on with
\* the next study.
C14_RowDespiteRegistryError ==
  [][(/\ kpc = "run"
      /\ Len(clog') = Len(clog) + 1
      /\ Last(clog').ret = "False")
       => /\ Last(clog').reply.has_error
          /\ Len(artifact') = Len(artifact) + 1
          /\ Last(artifact').kind = "row"
          /\ Last(artifact').accession = studies[si].accession
          /\ Last(artifact').project = ProjectDefs[pi].name
          /\ Last(artifact').subj_id = Last(clog').subj_id
          /\ subjects' = subjects
          /\ ~InList(Last(clog').subj_id, subjects'[pi])
          /\ kpc' = "run"
          /\ si' = si + 1
          /\ pi' = 1]_vars

\* C14 witness: the pass over two studies has ended; the registry refused
\* the subject of the first, whose row is in the artifact while the subject
\* is in no list, and the second study was dealt with after it.
C14_Witness ==
  /\ kpc = "done"
  /\ Len(studies) = 2
  /\ Len(clog) >= 1
  /\ clog[1].ret = "False"
  /\ Len(artifact) >= 2
  /\ artifact[2].subj_id = clog[1].subj_id
  /\ artifact[2].accession = studies[1].accession
  /\ ~InList(clog[1].subj_id, subjects[clog[1].proj])
  /\ \E j \in 1..Len(klog) : klog[j].study = 2

\* C16: no retry on transport failure. A call of fiona_create_subject whose
\* request failed at network level has issued exactly one request, has
\* left the subjects list as it was, and has ended in the exception, not
\* in a return value.
C16_NoRetryOnTransportFailure ==
  \A j \in 1..Len(clog) :
    /\ clog[j].requests <= 1
    /\ clog[j].reply.raised =>
         /\ clog[j].requests = 1
         /\ ~clog[j].added
         /\ clog[j].ret = "raise"
         /\ (Len(clog) = j => ~InList(clog[j].subj_id, subjects[clog[j].proj]))

\* C16 witness: the request of a call failed at network level, and a later
\* call for the same subject asked the registry again.
C16_Witness ==
  \E j \in 1..Len(clog) : \E i \in 1..(j - 1) :
    /\ clog[i].reply.raised
    /\ SameSubject(clog[i], clog[j])
    /\ clog[j].requests = 1

\* ---------------------------------------------------- transfer: properties
\* The run has ended: send_dicom_folder returned, or an exception left it.
RunEnded == pc \in {"done", "crashed"}

\* The session of the current run was established.
RunEstablished == Len(log) > 0 /\ log[1].op = "associate" /\ log[1].ok

IsStore(e) == e.op = "store"
StoreFailed(e) == IsStore(e) /\ e.status # StatusDataset(StatusSuccess)
StoreSucceeded(e) == IsStore(e) /\ e.status = StatusDataset(StatusSuccess)

\* C1 (as claimed): fail-fast per folder. Once a store of a file of a folder
\* has returned a non-success status or no status, the run issues no further
\* store for that folder and writes no sentinel for it.
C1_FailFast ==
  \A i \in 1..Len(log) : \A j \in 1..Len(log) :
    (i < j /\ StoreFailed(log[i]) /\ log[j].folder = log[i].folder)
      => log[j].op \notin {"store", "sentinel"}

\* C2 (as claimed): sentinel safety. Every sentinel is written by a run that
\* before the write stored every member file of the folder with the success
\* status and had no store of that folder fail. Every sentinel there is
\* was written as the last entry of some run's log, so this covers them all.
C2_SentinelSafety ==
  \A j \in 1..Len(log) :
    log[j].op = "sentinel" =>
      /\ \A k \in 1..tree[log[j].folder] :
           \E i \in 1..(j - 1) :
             /\ StoreSucceeded(log[i])
             /\ log[i].folder = log[j].folder
             /\ log[i].file = FileNames[k]
      /\ \A i \in 1..(j - 1) :
           log[i].folder = log[j].folder => ~StoreFailed(log[i])

\* C3: resume idempotence. A folder that has its sentinel keeps it, and no
\* step issues a store for it or writes its sentinel again.
C3_ResumeIdempotence ==
  [][\A f \in Folders :
       sentinel[f] =>
         /\ sentinel'[f]
         /\ ~(/\ log' # log
              /\ Len(log') > 0
              /\ Last(log').folder = f
              /\ Last(log').op \in {"store", "sentinel"})]_tvars

\* C3 witness: a second, established run over a tree of non-empty folders
\* that all have their sentinel has ended having issued nothing but the
\* associate and the release.
C3_Witness ==
  /\ run = 2
  /\ pc = "done"
  /\ RunEstablished
  /\ \A f \in Folders : sentinel[f] /\ tree[f] > 0
  /\ Len(log) = 2

\* A folder was attempted in the current run.
Attempted(g) ==
  \E j \in 1..Len(log) :
    log[j].folder = g /\ log[j].op \in {"read", "store", "sentinel"}

\* C4 (as claimed): failure isolation between folders. When an established
\* run in which every file could be read and every store was submitted has
\* ended and a store of folder f failed in it, every later folder was
\* skipped for its sentinel or was attempted in that run.
C4_FailureIsolation ==
  (RunEnded /\ RunEstablished
     /\ \A j \in 1..Len(log) : log[j].op \notin {"read", "refused"})
    => \A i \in 1..Len(log) :
         StoreFailed(log[i]) =>
           \A g \in Folders :
             g > log[i].folder => (sentinel[g] \/ Attempted(g))

\* C5 (as claimed): a run whose session was established, was not lost to
\* the peer, and that has ended has released the session.
C5_ReleaseReached ==
  (RunEnded /\ RunEstablished /\ assoc # "Aborted")
    => \E j \in 1..Len(log) : log[j].op = "release" /\ log[j].ok

\* C6: establishment failure is fatal for the pass. In a run whose associate
\* was not accepted the session is Failed, and the run reads no file,
\* issues no store, writes no sentinel and associates only once.
C6_EstablishFailureFatal ==
  (Len(log) > 0 /\ ~log[1].ok)
    => /\ assoc = "Failed"
       /\ \A j \in 2..Len(log) :
            log[j].op \notin {"associate", "read", "store", "sentinel"}

\* C6 witness: a run whose associate was refused has ended while a folder
\* with member files and no sentinel was waiting to be sent.
C6_Witness ==
  /\ pc = "done"
  /\ Len(log) > 0
  /\ ~log[1].ok
  /\ \E f \in Folders : tree[f] > 0 /\ ~sentinel[f]

C19_VacuousCompletion ==
  [][/\ (pc \in {"loop", "send", "release"} /\ RunEstablished
           /\ pc' \in {"done", "crashed"})
         => \A f \in Folders :
              tree[f] = 0 =>
                /\ sentinel'[f]
                /\ \A j \in 1..Len(log') :
                     IsStore(log'[j]) => log'[j].folder # f
     /\ \A f \in Folders :
          (sentinel[f] /\ Len(log') = Len(log) + 1 /\ IsStore(Last(log')))
            => Last(log').folder # f]_vars

====
